---- MODULE Spec2Model ----
(***************************************************************************)
(* Model of the Wazuh agent installer (src/src/main.rs).                   *)
(*                                                                         *)
(* One run of main: presence check, distribution/architecture detection,   *)
(* package resolution, download, privilege check, install, cleanup.        *)
(* Text is modelled with TLA+ strings; the string functions of the Rust    *)
(* standard library the program uses (lines, starts_with, split, nth,      *)
(* trim_matches) are operators computed character by character.            *)
(***************************************************************************)
EXTENDS Integers, Sequences, FiniteSets, TLC

(***************************************************************************)
(* Bounds of the model.                                                    *)
(***************************************************************************)
\* number of lines of the modelled /etc/os-release files
MaxLines == 2

(***************************************************************************)
(* String functions of the Rust standard library.                          *)
(***************************************************************************)
CharAt(s, i) == SubSeq(s, i, i)

\* str::starts_with
StartsWith(s, p) == Len(s) >= Len(p) /\ SubSeq(s, 1, Len(p)) = p

\* str::ends_with
EndsWith(s, x) == Len(s) >= Len(x) /\ SubSeq(s, Len(s) - Len(x) + 1, Len(s)) = x

\* position of the first occurrence of character c in s at or after
\* position from; Len(s) + 1 when there is none
RECURSIVE FindChar(_, _, _)
FindChar(s, c, from) ==
    IF from > Len(s) THEN Len(s) + 1
    ELSE IF CharAt(s, from) = c THEN from
    ELSE FindChar(s, c, from + 1)

\* str::split(c): the sequence of the pieces of s between occurrences of c
RECURSIVE Split(_, _)
Split(s, c) ==
    LET i == FindChar(s, c, 1) IN
    IF i > Len(s) THEN <<s>>
    ELSE <<SubSeq(s, 1, i - 1)>> \o Split(SubSeq(s, i + 1, Len(s)), c)

\* Iterator::nth(n).unwrap_or(d) on the pieces (n counts from 0)
NthOr(pieces, n, d) == IF n + 1 <= Len(pieces) THEN pieces[n + 1] ELSE d

\* str::trim_matches(c): strips every leading and every trailing c
RECURSIVE TrimStart(_, _)
TrimStart(s, c) ==
    IF Len(s) > 0 /\ CharAt(s, 1) = c THEN TrimStart(SubSeq(s, 2, Len(s)), c) ELSE s

RECURSIVE TrimEnd(_, _)
TrimEnd(s, c) ==
    IF Len(s) > 0 /\ CharAt(s, Len(s)) = c THEN TrimEnd(SubSeq(s, 1, Len(s) - 1), c) ELSE s

TrimMatches(s, c) == TrimEnd(TrimStart(s, c), c)

\* str::lines(): pieces between line feeds, without the empty piece after a
\* final line feed, each without one trailing carriage return
StripCR(l) == IF EndsWith(l, "\r") THEN SubSeq(l, 1, Len(l) - 1) ELSE l

Lines(content) ==
    LET pieces == Split(content, "\n")
        kept   == IF pieces[Len(pieces)] = "" THEN SubSeq(pieces, 1, Len(pieces) - 1)
                  ELSE pieces
    IN [k \in 1..Len(kept) |-> StripCR(kept[k])]

(***************************************************************************)
(* The environment of a run.                                               *)
(***************************************************************************)
\* lines an /etc/os-release file of the model is made of
IdLines ==
    { "ID=alpine", "ID=amazon", "ID=\"centos\"", "ID=debian", "ID=fedora",
      "ID=\"opensuse\"", "ID=oracle", "ID=redhat", "ID=suse", "ID=ubuntu",
      "ID=raspbian", "ID=arch", "ID=ubuntu=lts" }

VersionLines == { "VERSION_ID=\"5\"", "VERSION_ID=11", "VERSION_ID=\"1=2\"" }

OtherLines == { "ID_LIKE=debian" }

LineSet == IdLines \cup VersionLines \cup OtherLines

\* the text of a file: every line followed by a line feed
RECURSIVE JoinLines(_)
JoinLines(ls) == IF Len(ls) = 0 THEN "" ELSE ls[1] \o "\n" \o JoinLines(Tail(ls))

FileTexts == { JoinLines(ls) : ls \in UNION { [1..n -> LineSet] : n \in 0..MaxLines } }

\* what fs::read_to_string("/etc/os-release") can give
Unreadable == [readable |-> FALSE, content |-> ""]
OsReleaseFiles == { Unreadable } \cup { [readable |-> TRUE, content |-> t] : t \in FileTexts }

\* the build's target_arch
TargetArchs == { "x86", "x86_64", "aarch64", "arm", "powerpc64", "riscv64" }

\* how running an external command can end
Outcomes == { "spawn_error", "nonzero", "zero" }

\* Result values
Ok(v) == [ok |-> TRUE, value |-> v]
Err(kind, msg) == [ok |-> FALSE, kind |-> kind, msg |-> msg]

(***************************************************************************)
(* check_wazuh_installed                                                   *)
(***************************************************************************)
\* a variant that tests the exit status the wrong way round
check_wazuh_installed_negated(outcome) ==
    IF outcome = "spawn_error" THEN Ok(FALSE)
    ELSE Ok(outcome # "zero")

\* a variant that hands the spawn error to the caller, as `.output()?` would
check_wazuh_installed_propagating(outcome) ==
    IF outcome = "spawn_error" THEN Err("IOError", "No such file or directory")
    ELSE Ok(outcome = "zero")

\* the Result for the outcome of `which wazuhctl`
check_wazuh_installed(outcome) ==
    IF outcome = "spawn_error" THEN Ok(FALSE)
    ELSE Ok(outcome = "zero")

(***************************************************************************)
(* get_distribution_and_version                                            *)
(***************************************************************************)
\* the loop over the lines: the last ID= line and the last VERSION_ID= line
\* decide; result <<distribution, version>>
RECURSIVE ScanLines(_, _, _, _)
ScanLines(ls, k, distribution, version) ==
    IF k > Len(ls) THEN <<distribution, version>>
    ELSE IF StartsWith(ls[k], "ID=")
         THEN ScanLines(ls, k + 1, TrimMatches(NthOr(Split(ls[k], "="), 1, ""), "\""), version)
    ELSE IF StartsWith(ls[k], "VERSION_ID=")
         THEN ScanLines(ls, k + 1, distribution, TrimMatches(NthOr(Split(ls[k], "="), 1, ""), "\""))
    ELSE ScanLines(ls, k + 1, distribution, version)

\* a variant of the match with an arm get_package_name does not have
RecognizedWithArch ==
    { "alpine", "amazon", "centos", "debian", "fedora", "opensuse", "oracle",
      "redhat", "suse", "ubuntu", "raspbian", "arch" }

\* the distributions the match names
Recognized ==
    { "alpine", "amazon", "centos", "debian", "fedora", "opensuse", "oracle",
      "redhat", "suse", "ubuntu", "raspbian" }

\* the match on (distribution, version)
MatchDistribution(distribution, version) ==
    IF distribution = "amazon" THEN Ok(<<"amazon", "latest">>)
    ELSE IF distribution \in Recognized THEN Ok(<<distribution, version>>)
    ELSE Err("DistributionDetectionError", "Unsupported distribution")

get_distribution_and_version(file) ==
    IF ~file.readable
    THEN Err("DistributionDetectionError", "Failed to read /etc/os-release")
    ELSE LET found == ScanLines(Lines(file.content), 1, "", "")
         IN MatchDistribution(found[1], found[2])

(***************************************************************************)
(* get_architecture                                                        *)
(***************************************************************************)
get_architecture(target_arch) ==
    IF target_arch = "x86" THEN Ok("i386")
    ELSE IF target_arch = "x86_64" THEN Ok("x86_64")
    ELSE IF target_arch = "aarch64" THEN Ok("aarch64")
    ELSE IF target_arch = "arm" THEN Ok("armhf")
    ELSE IF target_arch = "powerpc64" THEN Ok("powerpc")
    ELSE Err("ArchitectureDetectionError", "Unsupported architecture")

(***************************************************************************)
(* get_package_name, get_package_extension                                 *)
(***************************************************************************)
\* the value standing for the panic of unreachable!()
Unreachable == "<unreachable>"

\* the match on (distribution, architecture), arm by arm in source order
get_package_name(distribution, architecture) ==
    IF distribution = "alpine" THEN "wazuh-agent-4.7.3-r1.apk"
    ELSE IF distribution = "amazon" THEN "wazuh-agent-4.7.3-1.ppc64le.rpm"
    ELSE IF (distribution = "centos" /\ architecture = "5")
            \/ (distribution = "oracle" /\ architecture = "5")
         THEN "wazuh-agent-4.7.3-1.el5.x86_64.rpm"
    ELSE IF distribution = "centos" THEN "wazuh-agent-4.7.3-1.x86_64.rpm"
    ELSE IF distribution = "debian" THEN "wazuh-agent_4.7.3-1_amd64.deb"
    ELSE IF distribution = "fedora" THEN "wazuh-agent-4.7.3-1.x86_64.rpm"
    ELSE IF distribution = "opensuse" THEN "wazuh-agent-4.7.3-1.x86_64.rpm"
    ELSE IF distribution = "oracle" THEN "wazuh-agent-4.7.3-1.x86_64.rpm"
    ELSE IF distribution = "redhat" /\ architecture = "5"
         THEN "wazuh-agent-4.7.3-1.el5.x86_64.rpm"
    ELSE IF distribution = "redhat" THEN "wazuh-agent-4.7.3-1.x86_64.rpm"
    ELSE IF distribution = "suse" /\ architecture = "11"
         THEN "wazuh-agent-4.7.3-1.el5.x86_64.rpm"
    ELSE IF distribution = "suse" THEN "wazuh-agent-4.7.3-1.x86_64.rpm"
    ELSE IF distribution = "ubuntu" THEN "wazuh-agent_4.7.3-1_amd64.deb"
    ELSE IF distribution = "raspbian" THEN "wazuh-agent_4.7.3-1_armhf.deb"
    ELSE Unreachable

get_package_extension(distribution) ==
    IF distribution = "alpine" THEN "apk" ELSE "rpm"

\* format!("https://packages.wazuh.com/4.x/{}/{}/{}/{}", ...)
FormatUrl(distribution, version, architecture, name) ==
    "https://packages.wazuh.com/4.x/" \o distribution \o "/" \o version \o "/"
        \o architecture \o "/" \o name

\* Path::new("/tmp/").join(format!("wazuh-agent.{}", package_extension))
PackagePath(package_extension) == "/tmp/" \o "wazuh-agent." \o package_extension

\* the install command chosen from the package extension
InstallCommand(package_extension) ==
    IF package_extension = "deb" THEN "dpkg -i" ELSE "rpm -Uvh"

(***************************************************************************)
(* The conditions install_wazuh_agent tests on the commands it runs.       *)
(***************************************************************************)
\* line 87: Command::new("curl").output().is_err()
CurlMissing(probe) == probe = "spawn_error"

\* a variant that drops the test of the exit status
DownloadFailedSpawnOnly(download_result) == download_result = "spawn_error"

\* line 95: download_result.is_err() || !download_result.unwrap().success()
DownloadFailed(download_result) == download_result # "zero"

\* a variant that drops the test of the exit status
SudoFailedSpawnOnly(sudo_check) == sudo_check = "spawn_error"

\* line 102: sudo_check.is_err() || !sudo_check.unwrap().status.success()
SudoFailed(sudo_check) == sudo_check # "zero"

\* line 117: install_status.is_err() || !install_status.unwrap().success()
InstallFailed(install_status) == install_status # "zero"

(***************************************************************************)
(* The state of a run of main.                                             *)
(***************************************************************************)
VARIABLES
    pc,                 \* the step the run is about to take
    check_result,       \* what check_wazuh_installed returned to main
    os_release,         \* what reading /etc/os-release gave (once read)
    distribution,       \* install_wazuh_agent's locals
    version,
    architecture,
    package_url,
    package_extension,
    package_path,
    install_command,
    commands,           \* external effects so far, each with how it ended
    output,             \* lines printed on stdout and stderr
    error               \* the Err install_wazuh_agent returned, if any

vars == <<pc, check_result, os_release, distribution, version, architecture,
          package_url, package_extension, package_path, install_command,
          commands, output, error>>

locals == <<distribution, version, architecture, package_url, package_extension,
            package_path, install_command>>

Pending == [pending |-> TRUE]
NoError == [ok |-> TRUE, value |-> "none"]
NotRead == [readable |-> FALSE, content |-> "<not read>"]

\* an external effect: the command line (or file operation) and its outcome
Ran(argv, outcome) == [argv |-> argv, outcome |-> outcome]

Init ==
    /\ pc = "Start"
    /\ check_result = Pending
    /\ os_release = NotRead
    /\ distribution = ""
    /\ version = ""
    /\ architecture = ""
    /\ package_url = ""
    /\ package_extension = ""
    /\ package_path = ""
    /\ install_command = ""
    /\ commands = <<>>
    /\ output = <<>>
    /\ error = NoError

\* install_wazuh_agent returns Err(e) to main, which reports it (lines 50-51)
Fail(e) ==
    /\ pc' = "Failed"
    /\ error' = e
    /\ output' = Append(output, "Failed to install Wazuh agent: " \o e.msg)

\* main is entered and calls check_wazuh_installed
Main ==
    /\ pc = "Start"
    /\ pc' = "CheckingPresence"
    /\ UNCHANGED <<check_result, os_release, locals, commands, output, error>>

\* check_wazuh_installed runs `which wazuhctl`; main matches on its result
CheckWazuhInstalled ==
    /\ pc = "CheckingPresence"
    /\ \E wazuhctl_result \in Outcomes :
         LET r == check_wazuh_installed(wazuhctl_result) IN
         /\ commands' = Append(commands, Ran(<<"which", "wazuhctl">>, wazuhctl_result))
         /\ check_result' = r
         /\ IF ~r.ok
            THEN /\ pc' = "Failed"
                 /\ error' = r
                 /\ output' = Append(output,
                                     "Error checking Wazuh agent installation: " \o r.msg)
            ELSE IF r.value
            THEN /\ pc' = "Done"
                 /\ output' = Append(output, "Wazuh agent is already installed.")
                 /\ UNCHANGED error
            ELSE /\ pc' = "Detecting"
                 /\ output' = Append(output, "Wazuh agent is not installed. Installing...")
                 /\ UNCHANGED error
    /\ UNCHANGED <<os_release, locals>>

\* install_wazuh_agent, lines 75-76: get_distribution_and_version()? and
\* get_architecture()?
Detect ==
    /\ pc = "Detecting"
    /\ \E file \in OsReleaseFiles, target_arch \in TargetArchs :
         LET d == get_distribution_and_version(file)
             a == get_architecture(target_arch)
         IN
         /\ os_release' = file
         /\ commands' = Append(commands,
                               Ran(<<"read", "/etc/os-release">>,
                                   IF file.readable THEN "ok" ELSE "io_error"))
         /\ IF ~d.ok
            THEN /\ Fail(d)
                 /\ UNCHANGED <<distribution, version, architecture>>
            ELSE IF ~a.ok
            THEN /\ Fail(a)
                 /\ distribution' = d.value[1]
                 /\ version' = d.value[2]
                 /\ UNCHANGED architecture
            ELSE /\ pc' = "Resolving"
                 /\ distribution' = d.value[1]
                 /\ version' = d.value[2]
                 /\ architecture' = a.value
                 /\ UNCHANGED <<output, error>>
    /\ UNCHANGED <<check_result, package_url, package_extension, package_path,
                   install_command>>

\* install_wazuh_agent, lines 78-84: the URL, the extension and the path
Resolve ==
    /\ pc = "Resolving"
    /\ LET name == get_package_name(distribution, architecture) IN
       IF name = Unreachable
       THEN /\ pc' = "Panicked"
            /\ UNCHANGED <<package_url, package_extension, package_path>>
       ELSE /\ pc' = "Downloading"
            /\ package_url' = FormatUrl(distribution, version, architecture, name)
            /\ package_extension' = get_package_extension(distribution)
            /\ package_path' = PackagePath(get_package_extension(distribution))
    /\ UNCHANGED <<check_result, os_release, distribution, version, architecture,
                   install_command, commands, output, error>>

\* install_wazuh_agent, lines 87-99: the curl probe, then the download
Download ==
    /\ pc = "Downloading"
    /\ \E probe \in Outcomes, download_result \in Outcomes :
         IF CurlMissing(probe)
         THEN /\ commands' = Append(commands, Ran(<<"curl">>, probe))
              /\ Fail(Err("DownloadError", "Curl is not installed."))
         ELSE /\ commands' = commands \o
                    << Ran(<<"curl">>, probe),
                       Ran(<<"curl", "-L", package_url, "-o", package_path>>,
                           download_result) >>
              /\ IF DownloadFailed(download_result)
                 THEN Fail(Err("DownloadError",
                               "Failed to download the Wazuh agent package."))
                 ELSE /\ pc' = "Escalating"
                      /\ UNCHANGED <<output, error>>
    /\ UNCHANGED <<check_result, os_release, locals>>

\* install_wazuh_agent, lines 101-106: sudo -v
Escalate ==
    /\ pc = "Escalating"
    /\ \E sudo_check \in Outcomes :
         /\ commands' = Append(commands, Ran(<<"sudo", "-v">>, sudo_check))
         /\ IF SudoFailed(sudo_check)
            THEN Fail(Err("SudoError", "Sudo privileges are required for installation."))
            ELSE /\ pc' = "Installing"
                 /\ UNCHANGED <<output, error>>
    /\ UNCHANGED <<check_result, os_release, locals>>

\* install_wazuh_agent, lines 108-121: the install command under sudo
Install ==
    /\ pc = "Installing"
    /\ \E install_status \in Outcomes :
         /\ install_command' = InstallCommand(package_extension)
         /\ commands' = Append(commands,
                               Ran(<<"sudo", InstallCommand(package_extension), package_path>>,
                                   install_status))
         /\ IF InstallFailed(install_status)
            THEN Fail(Err("InstallationError", "Failed to install Wazuh agent package."))
            ELSE /\ pc' = "Cleanup"
                 /\ UNCHANGED <<output, error>>
    /\ UNCHANGED <<check_result, os_release, distribution, version, architecture,
                   package_url, package_extension, package_path>>

\* install_wazuh_agent, lines 123-126: remove the downloaded file (the result
\* of the removal is dropped), return Ok(()); main reports success
Cleanup ==
    /\ pc = "Cleanup"
    /\ \E removed \in { "ok", "io_error" } :
         commands' = Append(commands, Ran(<<"remove_file", package_path>>, removed))
    /\ pc' = "Done"
    /\ output' = Append(output, "Wazuh agent installed successfully.")
    /\ UNCHANGED <<check_result, os_release, locals, error>>

Next ==
    \/ Main
    \/ CheckWazuhInstalled
    \/ Detect
    \/ Resolve
    \/ Download
    \/ Escalate
    \/ Install
    \/ Cleanup

Spec == Init /\ [][Next]_vars

\* every external command returns, so the run takes its next step
FairSpec == Init /\ [][Next]_vars /\ WF_vars(Next)

(***************************************************************************)
(* Vocabulary of the properties.                                           *)
(***************************************************************************)
Terminal == { "Done", "Failed" }

\* the kind of an external effect
Kind(c) ==
    IF c.argv[1] = "curl" THEN (IF Len(c.argv) = 1 THEN "curl probe" ELSE "curl download")
    ELSE IF c.argv[1] = "sudo" THEN (IF c.argv = <<"sudo", "-v">> THEN "sudo -v" ELSE "install")
    ELSE c.argv[1]

\* the effects of a complete run, in order
StepOrder ==
    <<"which", "read", "curl probe", "curl download", "sudo -v", "install", "remove_file">>

Invoked(kind) == \E i \in 1..Len(commands) : Kind(commands[i]) = kind

\* the eleven distribution tags
ElevenTags ==
    { "alpine", "amazon", "centos", "debian", "fedora", "opensuse", "oracle",
      "redhat", "suse", "ubuntu", "raspbian" }

\* the value a file gives a key: the text after "KEY=" on the last line that
\* starts with it, surrounding quote characters stripped; empty without such a line
FieldValue(content, key) ==
    LET ls   == Lines(content)
        hits == { k \in 1..Len(ls) : StartsWith(ls[k], key) }
    IN IF hits = {} THEN ""
       ELSE LET m == CHOOSE k \in hits : \A j \in hits : j <= k
            IN TrimMatches(SubSeq(ls[m], Len(key) + 1, Len(ls[m])), "\"")

FileWasRead == os_release # NotRead

(***************************************************************************)
(* C1: once the install step has run, the Debian install command (dpkg -i) *)
(* was the one invoked if and only if the filename in the download URL     *)
(* ends in ".deb"; for every other filename the RPM command (rpm -Uvh) was *)
(* invoked.                                                                *)
(***************************************************************************)
C1_InstallCommandFollowsFilename ==
    \A i \in 1..Len(commands) :
        Kind(commands[i]) = "install" =>
            /\ commands[i].argv[2] = "dpkg -i" <=> EndsWith(package_url, ".deb")
            /\ ~EndsWith(package_url, ".deb") => commands[i].argv[2] = "rpm -Uvh"

(***************************************************************************)
(* C2: whenever the package-install command has been invoked, removal of   *)
(* the downloaded file /tmp/wazuh-agent.<extension> has been attempted by  *)
(* the time install_wazuh_agent has returned, on success and on failure.   *)
(***************************************************************************)
C2_CleanupAfterEveryInstall ==
    (pc \in Terminal /\ Invoked("install")) =>
        \E i \in 1..Len(commands) :
            commands[i].argv = <<"remove_file", "/tmp/wazuh-agent." \o package_extension>>

(***************************************************************************)
(* C3: for (centos, 5), (oracle, 5), (redhat, 5) and (suse, 11) the        *)
(* filename in the download URL is wazuh-agent-4.7.3-1.el5.x86_64.rpm, for *)
(* every architecture tag.                                                 *)
(***************************************************************************)
LegacyHosts ==
    { <<"centos", "5">>, <<"oracle", "5">>, <<"redhat", "5">>, <<"suse", "11">> }

C3_LegacyFilename ==
    (package_url # "" /\ <<distribution, version>> \in LegacyHosts) =>
        EndsWith(package_url, "/wazuh-agent-4.7.3-1.el5.x86_64.rpm")

(***************************************************************************)
(* C4: the external effects of a run happen in the order presence check,   *)
(* detection, (resolution,) download, privilege check, install; a download *)
(* utility that cannot be spawned or a failed download ends the run with   *)
(* DownloadError and nothing is invoked after it; a failed privilege check *)
(* ends the run with SudoError and nothing is invoked after it.            *)
(***************************************************************************)
C4_StepsInOrderAndAbort ==
    /\ Len(commands) <= Len(StepOrder)
    /\ \A i \in 1..Len(commands) :
         LET c == commands[i] IN
         /\ Kind(c) = StepOrder[i]
         /\ Kind(c) = "curl download" => (package_url # "" /\ c.argv[3] = package_url)
         /\ ( \/ (Kind(c) = "curl probe" /\ c.outcome = "spawn_error")
              \/ (Kind(c) = "curl download" /\ c.outcome # "zero") )
            => ( /\ i = Len(commands)
                 /\ pc = "Failed"
                 /\ ~error.ok
                 /\ error.kind = "DownloadError" )
         /\ (Kind(c) = "sudo -v" /\ c.outcome # "zero")
            => ( /\ i = Len(commands)
                 /\ pc = "Failed"
                 /\ ~error.ok
                 /\ error.kind = "SudoError" )

\* the privilege check has failed after a download that succeeded
C4_Witness ==
    /\ pc = "Failed"
    /\ Len(commands) = 5
    /\ commands[4].outcome = "zero"
    /\ commands[5].outcome = "nonzero"

(***************************************************************************)
(* C5: when the lookup command exits with status zero the run reports      *)
(* "already installed" and ends: OS metadata is not read, and neither the  *)
(* download utility, the privilege check, an install command nor the       *)
(* removal of the temporary file is invoked.                               *)
(***************************************************************************)
C5_InstalledShortCircuits ==
    (Len(commands) >= 1 /\ commands[1].outcome = "zero") =>
        /\ pc = "Done"
        /\ output = <<"Wazuh agent is already installed.">>
        /\ commands = << Ran(<<"which", "wazuhctl">>, "zero") >>
        /\ ~FileWasRead
        /\ error = NoError

C5_Witness ==
    /\ pc = "Done"
    /\ Len(commands) = 1
    /\ commands[1].outcome = "zero"

(***************************************************************************)
(* C6: check_wazuh_installed returns Ok for every outcome of the lookup    *)
(* command, true exactly when the command was spawned and exited with      *)
(* status zero; an absent lookup tool leads main into the install          *)
(* sequence, never into the error-reporting branch.                        *)
(***************************************************************************)
C6_PresenceCheckNeverFails ==
    pc \notin { "Start", "CheckingPresence" } =>
        /\ check_result.ok
        /\ check_result.value <=> (commands[1].outcome = "zero")
        /\ ~check_result.value =>
              output[1] = "Wazuh agent is not installed. Installing..."
        /\ \A k \in 1..Len(output) :
              ~StartsWith(output[k], "Error checking Wazuh agent installation")

\* the lookup tool is absent and main has entered the install sequence
C6_Witness ==
    /\ pc = "Detecting"
    /\ commands[1].outcome = "spawn_error"

(***************************************************************************)
(* C7: for every readable OS metadata file whose ID value is amazon,       *)
(* get_distribution_and_version returns the version "latest", whatever the *)
(* VERSION_ID line says and also without one; for every other recognized   *)
(* ID it returns the VERSION_ID value of the file with surrounding quote   *)
(* characters stripped.                                                    *)
(***************************************************************************)
C7_VersionOfFile ==
    (FileWasRead /\ os_release.readable) =>
        LET id  == FieldValue(os_release.content, "ID=")
            ver == FieldValue(os_release.content, "VERSION_ID=")
        IN /\ id = "amazon" => (distribution = "amazon" /\ version = "latest")
           /\ id \in ElevenTags \ {"amazon"} => (distribution = id /\ version = ver)

(***************************************************************************)
(* C8: get_distribution_and_version returns DistributionDetectionError     *)
(* whenever the OS metadata file is unreadable or its ID value (quotes     *)
(* stripped, empty without an ID= line) is not exactly one of the eleven   *)
(* recognized tags; the run then performs no download, no privilege check  *)
(* and no install.                                                         *)
(***************************************************************************)
C8_UnrecognizedIdFails ==
    (FileWasRead /\ ( \/ ~os_release.readable
                      \/ FieldValue(os_release.content, "ID=") \notin ElevenTags )) =>
        /\ pc = "Failed"
        /\ ~error.ok
        /\ error.kind = "DistributionDetectionError"
        /\ Len(commands) = 2

(***************************************************************************)
(* C9: the program follows Start, CheckingPresence, then Done or           *)
(* Detecting, Resolving, Downloading, Escalating, Installing, Cleanup,     *)
(* Done: every step goes forward along these edges, no step is entered     *)
(* twice, a failing step moves directly to Failed with the error kind of   *)
(* that step, and (every external command returning) every run eventually  *)
(* reaches a terminal state, Done or Failed, and stays there.              *)
(***************************************************************************)
Edges ==
    { <<"Start", "CheckingPresence">>, <<"CheckingPresence", "Done">>,
      <<"CheckingPresence", "Detecting">>, <<"Detecting", "Resolving">>,
      <<"Resolving", "Downloading">>, <<"Downloading", "Escalating">>,
      <<"Escalating", "Installing">>, <<"Installing", "Cleanup">>,
      <<"Cleanup", "Done">> }

\* the error kinds of the steps that can fail
KindsOf(step) ==
    IF step = "Detecting" THEN { "DistributionDetectionError", "ArchitectureDetectionError" }
    ELSE IF step = "Downloading" THEN { "DownloadError" }
    ELSE IF step = "Escalating" THEN { "SudoError" }
    ELSE IF step = "Installing" THEN { "InstallationError" }
    ELSE {}

\* position of a state on the path; a step entered twice would not raise it
Rank(state) ==
    IF state = "Start" THEN 0
    ELSE IF state = "CheckingPresence" THEN 1
    ELSE IF state = "Detecting" THEN 2
    ELSE IF state = "Resolving" THEN 3
    ELSE IF state = "Downloading" THEN 4
    ELSE IF state = "Escalating" THEN 5
    ELSE IF state = "Installing" THEN 6
    ELSE IF state = "Cleanup" THEN 7
    ELSE 8

\* the command a step has just run did not succeed
CommandFailed(c) ==
    IF Kind(c) = "curl probe" THEN c.outcome = "spawn_error" ELSE c.outcome # "zero"

ForwardStep ==
    /\ Rank(pc') > Rank(pc)
    /\ \/ <<pc, pc'>> \in Edges /\ error' = NoError
       \/ pc' = "Failed" /\ ~error'.ok /\ error'.kind \in KindsOf(pc)
    /\ (pc \in { "Downloading", "Escalating", "Installing" }
            /\ CommandFailed(commands'[Len(commands')]))
         => pc' = "Failed"

C9_StateMachine == [][ForwardStep]_vars /\ <>[](pc \in Terminal)

\* a complete run: all seven effects, ending in Done
C9_Witness ==
    /\ pc = "Done"
    /\ Len(commands) = Len(StepOrder)

(***************************************************************************)
(* C10: resolving the package never panics: for every distribution tag     *)
(* get_distribution_and_version returns and every architecture tag         *)
(* get_architecture returns, get_package_name matches a named arm.         *)
(***************************************************************************)
C10_NoPanic ==
    /\ pc # "Panicked"
    /\ architecture # "" => get_package_name(distribution, architecture) # Unreachable

\* the last named arm of get_package_name has been taken
C10_Witness ==
    /\ pc = "Downloading"
    /\ distribution = "raspbian"
    /\ EndsWith(package_url, "/powerpc/wazuh-agent_4.7.3-1_armhf.deb")

(***************************************************************************)
(* The extent of the divergence found for C7 and C8: on files whose ID and *)
(* VERSION_ID values hold no "=" sign, both statements hold of the code.   *)
(***************************************************************************)
HoldsNoEquals(value) == FindChar(value, "=", 1) > Len(value)

PlainValues ==
    /\ HoldsNoEquals(FieldValue(os_release.content, "ID="))
    /\ HoldsNoEquals(FieldValue(os_release.content, "VERSION_ID="))

VersionOfFileOnPlainValues == PlainValues => C7_VersionOfFile

UnrecognizedIdFailsOnPlainValues == PlainValues => C8_UnrecognizedIdFails

====
